---- MODULE Spec2Model ----
(***************************************************************************)
(* DataCleaningPipeline of excel_cleaner.py as a state machine.            *)
(*                                                                         *)
(* A table (pandas DataFrame) is a sequence of rows; a row maps each table *)
(* column to a cell.  A cell is a record [k, v, s]:                        *)
(*   k = "na"   a missing value (NaN / None / NaT / <NA>)                  *)
(*   k = "num"  a number; v holds TWICE its value, so that the halves a    *)
(*              median of whole numbers produces stay integers             *)
(*   k = "str"  a string; s holds its characters                           *)
(*   k = "date" a timestamp; v holds twice the number it was made from     *)
(* dtype maps each table column to its pandas dtype.                       *)
(* A log entry "Removed <count> rows with missing <column>" is the record  *)
(* [kind |-> "missing", count |-> <count>, column |-> <column>].           *)
(***************************************************************************)
EXTENDS Integers, Sequences, FiniteSets, TLC

VARIABLES schema, df, dtype, errors, total_rows, cleaned_rows,
          pc, idx, feed, input, runs, removals, fills

vars == <<schema, df, dtype, errors, total_rows, cleaned_rows,
          pc, idx, feed, input, runs, removals, fills>>

----------------------------------------------------------------------------
(* Bounds of the model.                                                    *)

MaxRows == 3
MaxOutlierRows == 6
MaxReuseRows == 2

----------------------------------------------------------------------------
(* Cells and strings.                                                      *)

NA == [k |-> "na", v |-> 0, s |-> <<>>]
Num(x) == [k |-> "num", v |-> 2 * x, s |-> <<>>]
Half(v2) == [k |-> "num", v |-> v2, s |-> <<>>]
Str(chars) == [k |-> "str", v |-> 0, s |-> chars]
Date(v2) == [k |-> "date", v |-> v2, s |-> <<>>]

Unknown == <<"U", "n", "k", "n", "o", "w", "n">>

Digits == <<"0", "1", "2", "3", "4", "5", "6", "7", "8", "9">>

IsDigit(c) == \E d \in 1..10 : Digits[d] = c

DigitVal(c) == (CHOOSE d \in 1..10 : Digits[d] = c) - 1

IsNull(cell) == cell.k = "na"

TableCols == <<"a", "b">>

Columns == {TableCols[i] : i \in 1..Len(TableCols)}

Present(c) == c \in Columns

ColumnOf(t, c) == [i \in 1..Len(t) |-> t[i][c]]

NullCount(t, c) == Cardinality({i \in 1..Len(t) : IsNull(t[i][c])})

DropNa(t, c) ==
    LET Keep(row) == ~IsNull(row[c]) IN SelectSeq(t, Keep)

(* df[column].fillna(value, inplace=True), taken to update the table as    *)
(* pandas does without copy-on-write; filling with NaN changes nothing.    *)
FillNa(t, c, cell) ==
    [i \in 1..Len(t) |->
        IF IsNull(t[i][c]) THEN [t[i] EXCEPT ![c] = cell] ELSE t[i]]

RECURSIVE Insert(_, _)
Insert(x, sorted) ==
    IF sorted = <<>> THEN <<x>>
    ELSE IF x <= Head(sorted) THEN <<x>> \o sorted
    ELSE <<Head(sorted)>> \o Insert(x, Tail(sorted))

RECURSIVE SortInts(_)
SortInts(xs) ==
    IF xs = <<>> THEN <<>> ELSE Insert(Head(xs), SortInts(Tail(xs)))

(* The numbers of column c, missing values skipped, in ascending order.    *)
SortedValues(t, c) ==
    LET IsNum(cell) == cell.k = "num"
        nums == SelectSeq(ColumnOf(t, c), IsNum)
    IN SortInts([i \in 1..Len(nums) |-> nums[i].v])

(* Series.median(): NaN when no value is present.  The input tables hold   *)
(* whole numbers, so the mean of the two middle values is a whole number   *)
(* of halves.                                                              *)
Median(t, c) ==
    LET s == SortedValues(t, c)
        n == Len(s)
    IN IF n = 0 THEN NA
       ELSE IF n % 2 = 1 THEN Half(s[(n + 1) \div 2])
       ELSE Half((s[n \div 2] + s[n \div 2 + 1]) \div 2)

Entry(kind, count, column) ==
    [kind |-> kind, count |-> count, column |-> column]

NumericDtypes == {"int64", "float64"}

HandleMissingRequired(st, c) ==
    LET missing_count == NullCount(st.df, c)
    IN IF missing_count > 0
       THEN [st EXCEPT !.errors = Append(@, Entry("missing", missing_count, c)),
                       !.df = DropNa(@, c)]
       ELSE st

(* HandleMissingFill, had it logged each fill the way removals are logged. *)
HandleMissingFillLogged(st, c) ==
    LET filled == IF st.dtype[c] \in NumericDtypes
                  THEN FillNa(st.df, c, Median(st.df, c))
                  ELSE FillNa(st.df, c, Str(Unknown))
    IN IF filled # st.df
       THEN [st EXCEPT !.df = filled,
                       !.errors = Append(@, Entry("filled", NullCount(st.df, c), c))]
       ELSE st

(* fillna('Unknown') on a nullable-integer column that holds a missing     *)
(* value raises; a datetime column is turned into an object column.        *)
HandleMissingFill(st, c) ==
    IF st.dtype[c] \in NumericDtypes
    THEN [st EXCEPT !.df = FillNa(@, c, Median(st.df, c))]
    ELSE IF NullCount(st.df, c) = 0 THEN st
    ELSE IF st.dtype[c] = "Int64" THEN [st EXCEPT !.raised = "TypeError"]
    ELSE [st EXCEPT !.df = FillNa(@, c, Str(Unknown)),
                    !.dtype = [@ EXCEPT ![c] = "object"]]

(* HandleMissingColumn without the test that the column is in the table:   *)
(* a column that is not there counts as missing in every row.              *)
HandleMissingColumnUnguarded(st, e) ==
    IF Present(e.col)
    THEN IF e.required
         THEN HandleMissingRequired(st, e.col)
         ELSE HandleMissingFill(st, e.col)
    ELSE IF e.required /\ Len(st.df) > 0
    THEN [st EXCEPT !.errors = Append(@, Entry("missing", Len(st.df), e.col)),
                    !.df = <<>>]
    ELSE st

HandleMissingColumn(st, e) ==
    IF Present(e.col)
    THEN IF e.required
         THEN HandleMissingRequired(st, e.col)
         ELSE HandleMissingFill(st, e.col)
    ELSE st

----------------------------------------------------------------------------
(* Stage 2: type validation.                                               *)

AllDigits(chars) == Len(chars) > 0 /\ \A i \in 1..Len(chars) : IsDigit(chars[i])

RECURSIVE DecimalValue(_)
DecimalValue(chars) ==
    IF chars = <<>> THEN 0
    ELSE 10 * DecimalValue(SubSeq(chars, 1, Len(chars) - 1))
         + DigitVal(chars[Len(chars)])

(* pd.to_numeric(errors='coerce') on one value: a string of digits is      *)
(* parsed, any other string becomes missing.                               *)
ToNumeric(cell) ==
    IF cell.k = "str"
    THEN IF AllDigits(cell.s) THEN Num(DecimalValue(cell.s)) ELSE NA
    ELSE IF cell.k = "date" THEN Half(cell.v)
    ELSE cell

(* pd.to_datetime(errors='coerce') on one value: a number is a timestamp,  *)
(* a four-digit string is a year, any other string becomes missing.        *)
ToDatetime(cell) ==
    IF cell.k = "str"
    THEN IF AllDigits(cell.s) /\ Len(cell.s) = 4
         THEN Date(2 * DecimalValue(cell.s)) ELSE NA
    ELSE IF cell.k = "num" THEN Date(cell.v)
    ELSE cell

ToNumericColumn(t, c) ==
    [i \in 1..Len(t) |-> [t[i] EXCEPT ![c] = ToNumeric(t[i][c])]]

ToDatetimeColumn(t, c) ==
    [i \in 1..Len(t) |-> [t[i] EXCEPT ![c] = ToDatetime(t[i][c])]]

(* The dtype pd.to_numeric gives the converted column.                     *)
NumericDtypeOf(t, c, old) ==
    IF old \in {"int64", "float64", "Int64"} THEN old
    ELSE IF \E i \in 1..Len(t) : IsNull(t[i][c]) THEN "float64"
    ELSE "int64"

(* astype('Int64') raises on a number that is not whole.                   *)
CastRaises(t, c) ==
    \E i \in 1..Len(t) : t[i][c].k = "num" /\ t[i][c].v % 2 = 1

(* DropInvalid with the result of dropna thrown away.                      *)
DropInvalidKeepingRows(st, c) ==
    LET invalid_count == NullCount(st.df, c)
    IN IF invalid_count > 0
       THEN [st EXCEPT !.errors = Append(@, Entry("invalid", invalid_count, c))]
       ELSE st

DropInvalid(st, c) ==
    LET invalid_count == NullCount(st.df, c)
    IN IF invalid_count > 0
       THEN [st EXCEPT !.errors = Append(@, Entry("invalid", invalid_count, c)),
                       !.df = DropNa(@, c)]
       ELSE st

Coerce(st, c, expected_type) ==
    IF expected_type = "datetime"
    THEN [st EXCEPT !.df = ToDatetimeColumn(@, c),
                    !.dtype = [@ EXCEPT ![c] = "datetime64"]]
    ELSE IF expected_type \in {"int", "float"}
    THEN LET converted == ToNumericColumn(st.df, c)
             numeric == NumericDtypeOf(converted, c, st.dtype[c])
         IN [st EXCEPT !.df = converted,
                       !.dtype = [@ EXCEPT ![c] =
                           IF expected_type = "int" THEN "Int64" ELSE numeric]]
    ELSE st

(* The except clause: the column is left as it was, nothing is counted.    *)
CoercionFails(st, c, expected_type) ==
    expected_type = "int" /\ CastRaises(ToNumericColumn(st.df, c), c)

ValidateColumn(st, e) ==
    IF ~Present(e.col) THEN st
    ELSE IF e.type = "absent" THEN [st EXCEPT !.raised = "KeyError"]
    ELSE IF CoercionFails(st, e.col, e.type) THEN st
    ELSE DropInvalid(Coerce(st, e.col, e.type), e.col)

----------------------------------------------------------------------------
(* Stage 3: constraints.                                                   *)

RECURSIVE DecimalString(_)
DecimalString(n) ==
    IF n < 10 THEN <<Digits[n + 1]>>
    ELSE DecimalString(n \div 10) \o <<Digits[(n % 10) + 1]>>

(* astype(str) on one value of an object column.                           *)
AsStr(cell) ==
    IF cell.k = "str" THEN cell.s
    ELSE IF cell.k = "num" THEN DecimalString(cell.v \div 2)
    ELSE <<"n", "a", "n">>

(* str.match with a pattern of literal characters: the pattern matches at  *)
(* the start of the string.                                                *)
Match(pattern, chars) ==
    /\ Len(pattern) <= Len(chars)
    /\ SubSeq(chars, 1, Len(pattern)) = pattern

(* Series >= number: not defined for a timestamp column nor for a string.  *)
CompareRaises(t, dt, c) ==
    \/ dt[c] = "datetime64"
    \/ \E i \in 1..Len(t) : t[i][c].k \in {"str", "date"}

KeepMin(t, c, bound) ==
    LET Keep(row) == row[c].k = "num" /\ row[c].v >= 2 * bound
    IN SelectSeq(t, Keep)

KeepMax(t, c, bound) ==
    LET Keep(row) == row[c].k = "num" /\ row[c].v <= 2 * bound
    IN SelectSeq(t, Keep)

KeepPattern(t, c, pattern) ==
    LET Keep(row) == Match(pattern, AsStr(row[c]))
    IN SelectSeq(t, Keep)

(* ConstrainColumn with initial_count taken after the min_value filter.    *)
ConstrainColumnLateCount(st, e) ==
    IF ~Present(e.col) THEN st
    ELSE
    LET c == e.col
        raises1 == e.has_min /\ CompareRaises(st.df, st.dtype, c)
        t1 == IF e.has_min /\ ~raises1 THEN KeepMin(st.df, c, e.min_value) ELSE st.df
        initial_count == Len(t1)
        raises2 == e.has_max /\ CompareRaises(t1, st.dtype, c)
        t2 == IF e.has_max /\ ~raises2 THEN KeepMax(t1, c, e.max_value) ELSE t1
        t3 == IF e.has_pattern /\ st.dtype[c] = "object"
              THEN KeepPattern(t2, c, e.pattern) ELSE t2
        removed_count == initial_count - Len(t3)
    IN IF raises1 \/ raises2 THEN [st EXCEPT !.raised = "TypeError"]
       ELSE IF removed_count > 0
       THEN [st EXCEPT !.df = t3,
                       !.errors = Append(@, Entry("constraints", removed_count, c))]
       ELSE [st EXCEPT !.df = t3]

ConstrainColumn(st, e) ==
    IF ~Present(e.col) THEN st
    ELSE
    LET c == e.col
        initial_count == Len(st.df)
        raises1 == e.has_min /\ CompareRaises(st.df, st.dtype, c)
        t1 == IF e.has_min /\ ~raises1 THEN KeepMin(st.df, c, e.min_value) ELSE st.df
        raises2 == e.has_max /\ CompareRaises(t1, st.dtype, c)
        t2 == IF e.has_max /\ ~raises2 THEN KeepMax(t1, c, e.max_value) ELSE t1
        t3 == IF e.has_pattern /\ st.dtype[c] = "object"
              THEN KeepPattern(t2, c, e.pattern) ELSE t2
        removed_count == initial_count - Len(t3)
    IN IF raises1 \/ raises2 THEN [st EXCEPT !.raised = "TypeError"]
       ELSE IF removed_count > 0
       THEN [st EXCEPT !.df = t3,
                       !.errors = Append(@, Entry("constraints", removed_count, c))]
       ELSE [st EXCEPT !.df = t3]

----------------------------------------------------------------------------
(* Stage 4: outliers.                                                      *)

(* Four times Series.quantile(k/4) of the ascending values s, by linear    *)
(* interpolation between the two values around position (n-1)*k/4.         *)
Quantile4(s, k) ==
    LET n == Len(s)
        pos4 == (n - 1) * k
        i == pos4 \div 4
        f == pos4 % 4
    IN IF f = 0 THEN 4 * s[i + 1]
       ELSE 4 * s[i + 1] + f * (s[i + 2] - s[i + 1])

(* value < Q1 - 1.5*IQR or value > Q3 + 1.5*IQR, all times eight.          *)
IsOutlier(cell, s) ==
    LET Q1 == Quantile4(s, 1)
        Q3 == Quantile4(s, 3)
        IQR == Q3 - Q1
        lower_bound == 2 * Q1 - 3 * IQR
        upper_bound == 2 * Q3 + 3 * IQR
    IN cell.k = "num" /\ (8 * cell.v < lower_bound \/ 8 * cell.v > upper_bound)

IsNumericDtype(d) == d \in {"int64", "float64", "Int64"}

InSchema(sch, c) == \E j \in 1..Len(sch) : sch[j].col = c

(* OutlierColumn without the test outlier_count > 0.                       *)
OutlierColumnAlwaysLogging(st, sch, c) ==
    IF ~(IsNumericDtype(st.dtype[c]) /\ InSchema(sch, c)) THEN st
    ELSE
    LET s == SortedValues(st.df, c)
        Keep(row) == ~IsOutlier(row[c], s)
        kept == IF s = <<>> THEN st.df ELSE SelectSeq(st.df, Keep)
        outlier_count == Len(st.df) - Len(kept)
    IN [st EXCEPT !.df = kept,
                  !.errors = Append(@, Entry("outliers", outlier_count, c))]

OutlierColumn(st, sch, c) ==
    IF ~(IsNumericDtype(st.dtype[c]) /\ InSchema(sch, c)) THEN st
    ELSE
    LET s == SortedValues(st.df, c)
        Keep(row) == ~IsOutlier(row[c], s)
        kept == IF s = <<>> THEN st.df ELSE SelectSeq(st.df, Keep)
        outlier_count == Len(st.df) - Len(kept)
    IN IF outlier_count > 0
       THEN [st EXCEPT !.df = kept,
                       !.errors = Append(@, Entry("outliers", outlier_count, c))]
       ELSE st

----------------------------------------------------------------------------
(* The four stages over the whole schema, and the run.                     *)

Fresh(t, dt, errs) == [df |-> t, dtype |-> dt, errors |-> errs, raised |-> "none"]

RECURSIVE HandleMissingFrom(_, _, _)
HandleMissingFrom(st, sch, j) ==
    IF j > Len(sch) \/ st.raised # "none" THEN st
    ELSE HandleMissingFrom(HandleMissingColumn(st, sch[j]), sch, j + 1)

HandleMissingValues(st, sch) == HandleMissingFrom(st, sch, 1)

RECURSIVE ValidateFrom(_, _, _)
ValidateFrom(st, sch, j) ==
    IF j > Len(sch) \/ st.raised # "none" THEN st
    ELSE ValidateFrom(ValidateColumn(st, sch[j]), sch, j + 1)

ValidateDataTypes(st, sch) == ValidateFrom(st, sch, 1)

RECURSIVE ConstrainFrom(_, _, _)
ConstrainFrom(st, sch, j) ==
    IF j > Len(sch) \/ st.raised # "none" THEN st
    ELSE ConstrainFrom(ConstrainColumn(st, sch[j]), sch, j + 1)

ApplyConstraints(st, sch) == ConstrainFrom(st, sch, 1)

(* Stage 4 visiting the columns in the given order.                        *)
RECURSIVE OutliersFrom(_, _, _, _)
OutliersFrom(st, sch, order, j) ==
    IF j > Len(order) THEN st
    ELSE OutliersFrom(OutlierColumn(st, sch, order[j]), sch, order, j + 1)

RemoveOutliers(st, sch) == OutliersFrom(st, sch, TableCols, 1)

(* A stage runs only when no earlier stage has raised.                     *)
Returned(st) == st.raised = "none"

(* clean_and_validate as a function of the table and the log so far.       *)
CleanAndValidate(sch, t, dt, errs) ==
    LET s1 == HandleMissingValues(Fresh(t, dt, errs), sch)
        s2 == IF Returned(s1) THEN ValidateDataTypes(s1, sch) ELSE s1
        s3 == IF Returned(s2) THEN ApplyConstraints(s2, sch) ELSE s2
    IN IF Returned(s3) THEN RemoveOutliers(s3, sch) ELSE s3

----------------------------------------------------------------------------
(* Input tables, as pd.read_excel hands them over.                         *)

(* read_excel's dtype of a column: object when it holds a string (or no    *)
(* row at all), float64 when it holds numbers and blanks, int64 otherwise. *)
InferDtype(t, c) ==
    IF t = <<>> \/ \E i \in 1..Len(t) : t[i][c].k = "str" THEN "object"
    ELSE IF \E i \in 1..Len(t) : IsNull(t[i][c]) THEN "float64"
    ELSE "int64"

InferDtypes(t) == [c \in Columns |-> InferDtype(t, c)]

(* Rows are built from a sequence of cells per column; tables are          *)
(* enumerated up to the order of their rows (no stage reads a row's        *)
(* position: each one filters rows by value or by an order statistic).     *)
RowOf(cellsA, cellsB, r) ==
    [c \in Columns |->
        IF c = "a" THEN cellsA[((r - 1) \div Len(cellsB)) + 1]
        ELSE cellsB[((r - 1) % Len(cellsB)) + 1]]

TablesOfLen(cellsA, cellsB, n) ==
    LET K == Len(cellsA) * Len(cellsB)
        ranks == {f \in [1..n -> 1..K] : \A i \in 1..n : i = n \/ f[i] <= f[i + 1]}
    IN {[i \in 1..n |-> RowOf(cellsA, cellsB, f[i])] : f \in ranks}

TablesUpTo(cellsA, cellsB, maxLen) ==
    UNION {TablesOfLen(cellsA, cellsB, n) : n \in 0..maxLen}

GeneralTables ==
    TablesUpTo(<<NA, Num(0), Num(1), Str(<<"a", "b">>), Str(<<"1">>)>>,
               <<NA, Num(1)>>, MaxRows)

OutlierTables ==
    TablesUpTo(<<Num(0), Num(1), Num(3)>>, <<NA, Num(0), Num(1)>>, MaxOutlierRows)

ReuseTables ==
    TablesUpTo(<<NA, Num(0), Num(1), Str(<<"a", "b">>)>>, <<Num(0)>>, MaxReuseRows)

(* Schema entries.  type "int" and "float" stand for the Python types the  *)
(* code compares with, "datetime" for the string 'datetime', "str" for any *)
(* other tag, and "absent" for an entry without a 'type' key.              *)
Rule(col, type, required) ==
    [col |-> col, type |-> type, required |-> required,
     has_min |-> FALSE, min_value |-> 0, has_max |-> FALSE, max_value |-> 0,
     has_pattern |-> FALSE, pattern |-> <<>>]

WithMin(e, m) == [e EXCEPT !.has_min = TRUE, !.min_value = m]
WithMax(e, m) == [e EXCEPT !.has_max = TRUE, !.max_value = m]
WithPattern(e, p) == [e EXCEPT !.has_pattern = TRUE, !.pattern = p]

Types == {"int", "float", "str", "datetime", "absent"}

Constrained(e) ==
    {WithMin(e, 1), WithMax(e, 0), WithMax(WithMin(e, 0), 1), WithPattern(e, <<"a">>)}

RulesA ==
    {Rule("a", ty, rq) : ty \in Types, rq \in BOOLEAN}
    \cup Constrained(Rule("a", "float", FALSE))
    \cup Constrained(Rule("a", "str", FALSE))

RulesB == {Rule("b", "float", TRUE), Rule("b", "int", FALSE)}

RulesC == {WithMin(Rule("c", "absent", TRUE), 1), WithPattern(Rule("c", "int", FALSE), <<"a">>)}

GeneralSchemas ==
    {<<ea>> : ea \in RulesA}
    \cup {<<ea, eb>> : ea \in RulesA, eb \in RulesB}
    \cup {<<eb, ea>> : ea \in RulesA, eb \in RulesB}
    \cup {<<ec, ea, eb>> : ea \in {Rule("a", "int", FALSE), Rule("a", "str", TRUE)},
                           eb \in RulesB, ec \in RulesC}

OutlierSchemas ==
    {<<Rule("a", "float", FALSE)>>,
     <<Rule("a", "int", FALSE), Rule("b", "int", FALSE)>>,
     <<Rule("b", "float", TRUE), Rule("a", "float", TRUE)>>}

ReuseSchemas ==
    {<<Rule("a", "int", TRUE)>>,
     <<WithMin(Rule("a", "str", FALSE), 1)>>,
     <<WithPattern(Rule("a", "str", FALSE), <<"a">>), Rule("b", "int", FALSE)>>}

----------------------------------------------------------------------------
(* The state machine.                                                      *)

(* __init__, with the files still to be uploaded.                          *)
Init ==
    /\ \/ schema \in GeneralSchemas /\ feed \in {<<t>> : t \in GeneralTables}
       \/ schema \in OutlierSchemas /\ feed \in {<<t>> : t \in OutlierTables}
       \/ schema \in ReuseSchemas /\ feed \in {<<t, u>> : t \in ReuseTables, u \in ReuseTables}
    /\ df = <<>>
    /\ input = <<>>
    /\ dtype = InferDtypes(<<>>)
    /\ errors = <<>>
    /\ total_rows = 0
    /\ cleaned_rows = 0
    /\ pc = "idle"
    /\ idx = 1
    /\ runs = 0
    /\ removals = 0
    /\ fills = 0

Current == Fresh(df, dtype, errors)

(* One step of a stage's loop: the state after it, the position of the    *)
(* loop, and the count of steps that removed a row or filled a value.     *)
Advance(st, last, next) ==
    /\ df' = st.df
    /\ dtype' = st.dtype
    /\ errors' = st.errors
    /\ removals' = removals + (IF Len(st.df) < Len(df) THEN 1 ELSE 0)
    /\ fills' = fills + (IF Len(st.df) = Len(df) /\ st.df # df /\ pc = "missing" THEN 1 ELSE 0)
    /\ IF st.raised # "none" THEN pc' = "raised" /\ idx' = idx
       ELSE IF idx = last THEN pc' = next /\ idx' = 1
       ELSE pc' = pc /\ idx' = idx + 1
    /\ UNCHANGED <<schema, total_rows, cleaned_rows, feed, input, runs>>

StartClearingLog ==
    /\ pc \in {"idle", "done", "raised"}
    /\ feed # <<>>
    /\ total_rows' = Len(Head(feed))
    /\ df' = Head(feed)
    /\ input' = Head(feed)
    /\ dtype' = InferDtypes(Head(feed))
    /\ feed' = Tail(feed)
    /\ runs' = runs + 1
    /\ pc' = "missing"
    /\ idx' = 1
    /\ errors' = <<>>
    /\ UNCHANGED <<schema, cleaned_rows, removals, fills>>

Start ==
    /\ pc \in {"idle", "done", "raised"}
    /\ feed # <<>>
    /\ total_rows' = Len(Head(feed))
    /\ df' = Head(feed)
    /\ input' = Head(feed)
    /\ dtype' = InferDtypes(Head(feed))
    /\ feed' = Tail(feed)
    /\ runs' = runs + 1
    /\ pc' = "missing"
    /\ idx' = 1
    /\ UNCHANGED <<schema, errors, cleaned_rows, removals, fills>>

MissingStep ==
    /\ pc = "missing"
    /\ Advance(HandleMissingColumn(Current, schema[idx]), Len(schema), "types")

TypesStep ==
    /\ pc = "types"
    /\ Advance(ValidateColumn(Current, schema[idx]), Len(schema), "constraints")

ConstraintsStep ==
    /\ pc = "constraints"
    /\ Advance(ConstrainColumn(Current, schema[idx]), Len(schema), "outliers")

OutliersStep ==
    /\ pc = "outliers"
    /\ Advance(OutlierColumn(Current, schema, TableCols[idx]), Len(TableCols), "report")

ReportAccumulating ==
    /\ pc = "report"
    /\ cleaned_rows' = cleaned_rows + Len(df)
    /\ pc' = "done"
    /\ UNCHANGED <<schema, df, dtype, errors, total_rows, idx, feed, input, runs, removals, fills>>

Report ==
    /\ pc = "report"
    /\ cleaned_rows' = Len(df)
    /\ pc' = "done"
    /\ UNCHANGED <<schema, df, dtype, errors, total_rows, idx, feed, input, runs, removals, fills>>

Next == Start \/ MissingStep \/ TypesStep \/ ConstraintsStep \/ OutliersStep \/ Report

Spec == Init /\ [][Next]_vars

----------------------------------------------------------------------------
(* Properties.                                                             *)

FirstRun == runs = 1

RECURSIVE SumCounts(_)
SumCounts(log) ==
    IF log = <<>> THEN 0 ELSE Head(log).count + SumCounts(Tail(log))

IsPrefix(xs, ys) == Len(xs) <= Len(ys) /\ SubSeq(ys, 1, Len(xs)) = xs

PresentEntries == {j \in 1..Len(schema) : Present(schema[j].col)}

StripAbsent(sch) == LET Keep(e) == Present(e.col) IN SelectSeq(sch, Keep)

(* C1 as stated: cleaned_rows <= total_rows in every state of the          *)
(* instance, whatever runs it has been through.                            *)
C1_Always == cleaned_rows <= total_rows

(* C1 amended: cleaned_rows <= total_rows holds up to the end of the first *)
(* run of an instance and whenever a run has returned.                     *)
C1_AtReturn == (runs <= 1 \/ pc = "done") => cleaned_rows <= total_rows

C1_Witness == runs = 2 /\ pc = "done" /\ cleaned_rows < total_rows

(* A second run, by a new instance with the same schema, on the table the  *)
(* finished run returned.                                                  *)
SecondRun == CleanAndValidate(schema, df, dtype, <<>>)

(* The same second run up to the end of stage 3.                           *)
SecondRunBeforeOutliers ==
    LET s1 == HandleMissingValues(Fresh(df, dtype, <<>>), schema)
        s2 == IF Returned(s1) THEN ValidateDataTypes(s1, schema) ELSE s1
    IN IF Returned(s2) THEN ApplyConstraints(s2, schema) ELSE s2

(* C2 as stated: the pipeline run again on its own output logs nothing and *)
(* returns as many rows as it was given.                                   *)
C2_Idempotent ==
    (pc = "done" /\ FirstRun) =>
        /\ SecondRun.raised = "none"
        /\ SecondRun.errors = <<>>
        /\ Len(SecondRun.df) = Len(df)

(* C2 amended: run again on its own output, the pipeline does not raise,   *)
(* stages 1 to 3 remove no row and log nothing, and every entry of the     *)
(* second log is an outlier removal of stage 4.                            *)
C2_IdempotentBeforeOutliers ==
    (pc = "done" /\ FirstRun) =>
        /\ SecondRun.raised = "none"
        /\ SecondRunBeforeOutliers.errors = <<>>
        /\ Len(SecondRunBeforeOutliers.df) = Len(df)
        /\ \A j \in 1..Len(SecondRun.errors) : SecondRun.errors[j].kind = "outliers"

C2_Witness ==
    /\ pc = "done" /\ FirstRun
    /\ \E j \in 1..Len(errors) : errors[j].kind \in {"missing", "invalid", "constraints"}
    /\ SecondRun.errors # <<>>

(* C3 as stated: no run raises, whatever the table and the schema.         *)
C3_NeverRaises == pc # "raised"

(* A value of the declared type.  A string column is read leniently: any   *)
(* present value counts as text, since a spreadsheet cell always has one.  *)
TypeOk(cell, type) ==
    IF type = "int" THEN cell.k = "num" /\ cell.v % 2 = 0
    ELSE IF type = "float" THEN cell.k = "num"
    ELSE IF type = "datetime" THEN cell.k = "date"
    ELSE TRUE

Compliant(cell, e) ==
    /\ ~IsNull(cell)
    /\ TypeOk(cell, e.type)
    /\ e.has_min => (cell.k = "num" /\ cell.v >= 2 * e.min_value)
    /\ e.has_max => (cell.k = "num" /\ cell.v <= 2 * e.max_value)
    /\ (e.has_pattern /\ cell.k = "str") => Match(e.pattern, cell.s)

(* C4 as stated: every value a finished run returns in a schema column is  *)
(* present, of the declared type, inside the bounds and matches the        *)
(* pattern.                                                                *)
C4_OnlyCompliantRows ==
    pc = "done" =>
        \A i \in 1..Len(df) : \A j \in PresentEntries :
            Compliant(df[i][schema[j].col], schema[j])

(* C5: a schema entry for a column the table does not have changes         *)
(* nothing: the run ends as the run without that entry does (returned or   *)
(* raised, same table, same dtypes, same log), and no log entry names the  *)
(* column.                                                                 *)
C5_AbsentColumnSkipped ==
    (FirstRun /\ pc \in {"done", "raised"}) =>
        LET without == CleanAndValidate(StripAbsent(schema), input, InferDtypes(input), <<>>)
        IN /\ (pc = "raised") = (without.raised # "none")
           /\ df = without.df
           /\ dtype = without.dtype
           /\ errors = without.errors
           /\ \A j \in 1..Len(errors) : Present(errors[j].column)

C5_Witness ==
    /\ FirstRun /\ pc = "done"
    /\ \E j \in 1..Len(schema) : ~Present(schema[j].col) /\ schema[j].required
    /\ errors # <<>>
    /\ df # <<>>

(* C6: the log only grows: every step of the instance, the start of a new  *)
(* run included, leaves the log it had as a prefix of the log it has.      *)
C6_LogAppendOnly == [][IsPrefix(errors, errors')]_vars

C6_Witness ==
    /\ runs = 2 /\ pc = "done"
    /\ Len(errors) >= 2
    /\ errors[1].count > total_rows

Reversed(order) == [i \in 1..Len(order) |-> order[Len(order) + 1 - i]]

NumericSchemaColumns ==
    {c \in Columns : IsNumericDtype(dtype[c]) /\ InSchema(schema, c)}

HasOutlier(c) ==
    LET s == SortedValues(df, c)
    IN s # <<>> /\ \E i \in 1..Len(df) : IsOutlier(df[i][c], s)

(* C8 as stated: stage 4 leaves the same rows whether it visits the        *)
(* columns in the table's order or in the opposite order.                  *)
C8_OrderIrrelevant ==
    (pc = "outliers" /\ idx = 1) =>
        OutliersFrom(Current, schema, TableCols, 1).df
            = OutliersFrom(Current, schema, Reversed(TableCols), 1).df

(* C8 amended: when no numeric schema column has an outlier in the table   *)
(* stage 4 is given, both orders return that table and log nothing.        *)
C8_OrderIrrelevantWithoutOutliers ==
    (pc = "outliers" /\ idx = 1 /\ \A c \in NumericSchemaColumns : ~HasOutlier(c)) =>
        /\ OutliersFrom(Current, schema, TableCols, 1) = Current
        /\ OutliersFrom(Current, schema, Reversed(TableCols), 1) = Current

C8_Witness ==
    /\ pc = "outliers" /\ idx = 1
    /\ Cardinality(NumericSchemaColumns) = 2
    /\ Len(df) >= 4
    /\ \A c \in NumericSchemaColumns : ~HasOutlier(c)

(* C9 as stated: when stage 1 is over, no schema column that is not        *)
(* required holds a missing value.                                         *)
C9_NoMissingAfterFill ==
    (pc = "types" /\ idx = 1) =>
        \A j \in PresentEntries :
            ~schema[j].required => NullCount(df, schema[j].col) = 0

====
